---- MODULE Spec2Model ----
(***************************************************************************)
(* Solana Token Management CLI: the TokenInstructions class                *)
(* (cli/src/instructions.ts) and the interactive flows of cli/src/index.ts *)
(* as state machines.  Every awaited SDK call is an event whose outcome    *)
(* (value returned or error thrown) is chosen by the environment.          *)
(***************************************************************************)
EXTENDS Integers, Sequences, FiniteSets, TLC

(* ---------------------------- bounds ---------------------------------- *)
MaxRetriesBound == 6      \* largest maxRetries handed to sendTransactionWithRetry
MaxBatch == 2             \* longest account list handed to a batch operation
MaxOperations == 1        \* menu operations started in one session

(* ------------------------- program constants -------------------------- *)
DefaultMaxRetries == 3    \* instructions.ts:141  maxRetries = 3
BackoffBase == 1000       \* instructions.ts:179  1000 * Math.pow(2, attempt)
BackoffCap == 10000       \* instructions.ts:179  Math.min(..., 10000)

(* ------------------------- value universes ---------------------------- *)
Accounts == {"a1", "a2"}                  \* token account addresses
Errors == {"e1", "e2"}                    \* messages of thrown Error objects
NonErrors == {"undefined", "nonerr"}      \* values that are not Error instances
Thrown == Errors \cup {"nonerr"}          \* what an SDK call may throw

Mints == {"m1", "m2"}                     \* mint addresses
Keys == {"k1", "k2"}                      \* wallet keypairs / public keys
Null == "null"                            \* COption none: the authority was removed
Absent == "absent"                        \* no account at this address
SdkError == "e1"                          \* message of an error thrown by an SDK call
NoRet == [ok |-> FALSE, val |-> "none"]
NoArgs == [recipient |-> "none", amount |-> 0, raw |-> 0]   \* not a transfer
Amounts == {1, 5}                         \* token amounts a caller asks to transfer
\* an environment variable: unset, or set to a number
Unset == [set |-> FALSE, val |-> 0]
EnvNumber(n) == [set |-> TRUE, val |-> n]
MainnetKeys == {"minBalance", "warningThreshold", "confirmations", "maxRetries"}
Unloaded == [loaded |-> FALSE]
ConfigNetworks == {"devnet", "mainnet-beta"}   \* values of SOLANA_NETWORK
CustomRpcUrl == "https://rpc.example"     \* a value of SOLANA_RPC_URL

VARIABLES
    pc,          \* position of the running TokenInstructions call
    retpc,       \* where sendTransactionWithRetry returns to
    method,      \* name of the public method being executed
    txKind,      \* instruction of the transaction being sent: "freeze" | "thaw"
    txAccount,   \* token account the transaction is about
    maxRetries,  \* parameter of sendTransactionWithRetry
    attempt,     \* loop counter of sendTransactionWithRetry
    lastError,   \* lastError of sendTransactionWithRetry
    raised,      \* what the SDK threw in the current call: in its first failed attempt
                 \* and in its latest one
    waits,       \* delays slept by the current sendTransactionWithRetry call
    outcomes,    \* per attempt of the current call: "ok" | "fail"
    sendRes,     \* result of the last sendTransactionWithRetry call
    accounts,    \* accountPubkeys of the running batch call
    idx,         \* index of the batch loop (1-based)
    results,     \* BatchOperationResult being built
    ret,         \* outcome of the public method
    txlog,       \* transactions submitted to the cluster by the running call
    frozen,      \* cluster state: isFrozen of every token account
    mintAuthority, \* cluster state: mintAuthority of every mint ("absent": no such mint)
    ata,         \* cluster state: the <<owner, mint>> with an associated token account
    calls,       \* SDK / RPC calls issued by the running operation, in order
    tMethod,     \* the TokenInstructions / MetadataManager method last invoked
    tMint,       \* its mint argument
    tKey,        \* the keypair handed to it
    tRet,        \* its outcome
    tArgs,       \* transfer: its recipient and amount, and the rawAmount it handed to the SDK
    metadata,    \* cluster state: the mints that have a metadata account
    cpc,         \* position of the CLI (index.ts)
    flow,        \* the menu operation being run
    cfgNetwork,  \* config.network (SOLANA_NETWORK, default devnet)
    envRpcUrl,   \* process.env.SOLANA_RPC_URL: "unset" or a custom endpoint
    network,     \* the network selected for the running operation
    conn,        \* endpoint of the operation's Connection
    wallet,      \* keypair loaded from the wallet file
    cmint,       \* mint address typed by the user
    prompts,     \* questions asked by the running operation, in order
    out,         \* messages printed by the running operation
    proceedAns,  \* answer to the proceed prompt ("unasked" before it)
    mainnetAns,  \* answer to the MAINNET prompt
    finalAns,    \* answer to the DISABLE MINTING prompt
    airdropBack, \* where requestDevnetAirdrop returns to
    cMintAuth,   \* createToken: the mint authority typed by the user, or "undefined"
    savedNetwork, \* network field of the token record written last ("none": nothing written)
    ops,         \* menu operations started so far
    menuChoice,  \* the answer to the last menu question ("none" before the first)
    rlClosed,    \* number of rl.close() calls
    envMaxRetries, \* process.env.MAX_TRANSACTION_RETRIES: [set, val]
    envMainnet,  \* process.env.MAINNET_MIN_BALANCE, ..._WARNING_THRESHOLD, ..._CONFIRMATIONS,
                 \* ..._MAX_RETRIES: a record of [set, val]
    mainnetCfg   \* config.mainnet of config.ts once the module is loaded

instrVars == <<pc, retpc, method, txKind, txAccount, maxRetries, attempt, lastError, raised,
               waits, outcomes, sendRes, accounts, idx, results, ret, txlog, frozen>>
tokenVars == <<mintAuthority, ata, metadata, calls, tMethod, tMint, tKey, tRet, tArgs>>
envVars == <<cfgNetwork, envRpcUrl, envMaxRetries, envMainnet>>
cliVars == <<cpc, flow, envVars, network, conn, wallet, cmint, prompts, out,
             proceedAns, mainnetAns, finalAns, airdropBack, cMintAuth, savedNetwork, ops, menuChoice,
             rlClosed, mainnetCfg>>

vars == <<instrVars, tokenVars, cliVars>>

retryVars == <<maxRetries, attempt, lastError, raised, waits, outcomes, sendRes>>
batchVars == <<accounts, idx, results>>

(* ----------------------------- helpers -------------------------------- *)
\* error instanceof Error ? error.message : fallback
MessageOr(e, fallback) == IF e \in Errors THEN e ELSE fallback

\* instructions.ts:332  `Failed to check account freeze status: ${...}`
FreezeStatusMessage(e) ==
    "Failed to check account freeze status: " \o MessageOr(e, "Unknown error")

RECURSIVE Pow2(_)
Pow2(n) == IF n = 0 THEN 1 ELSE 2 * Pow2(n - 1)

Min(a, b) == IF a < b THEN a ELSE b

\* the delay without its cap
BackoffDelayUncapped(a) == BackoffBase * Pow2(a)

\* instructions.ts:179
BackoffDelay(a) == Min(BackoffBase * Pow2(a), BackoffCap)

\* instructions.ts:178
WaitsAfter(a, n) == a < n - 1

\* the loop condition off by one
MayAttemptOneMore(a, n) == a <= n

\* instructions.ts:145  loop condition
MayAttempt(a, n) == a < n

NoneRaised == [first |-> "undefined", last |-> "undefined"]
NoRes == [status |-> "none", sig |-> 0, err |-> "undefined"]
EmptyResults == [successes |-> <<>>, failures |-> <<>>]

\* what the token program does with a confirmed freeze / thaw instruction
ApplyTx(kind, acct) == [frozen EXCEPT ![acct] = (kind = "freeze")]
\* the token program rejects freezing a frozen and thawing an initialized account
Acceptable(kind, acct) == frozen[acct] # (kind = "freeze")

SeqsUpTo(S, n) == UNION {[1..k -> S] : k \in 0..n}

\* the cluster before the program runs: one mint exists, one can still be created
\* (one ledger stands for that of whichever network an operation selects; the
\* endpoint a call goes to is kept with the call)
TokenInit ==
    /\ mintAuthority = [m \in Mints |-> IF m = "m1" THEN "k1" ELSE Absent]
    /\ ata = {}
    /\ calls = <<>>
    /\ tMethod = "none"
    /\ tMint = "m1"
    /\ tKey = "k1"
    /\ tRet = NoRet
    /\ tArgs = NoArgs
    /\ metadata = {}

\* index.ts:13-17 and the locals of an operation before it starts
CliLocals ==
    /\ cpc = "menu"
    /\ flow = "none"
    /\ network = "devnet"
    /\ conn = "none"
    /\ wallet = "k1"
    /\ cmint = "m1"
    /\ prompts = <<>>
    /\ out = {}
    /\ proceedAns = "unasked"
    /\ mainnetAns = "unasked"
    /\ finalAns = "unasked"
    /\ airdropBack = "menu"
    /\ cMintAuth = "undefined"
    /\ savedNetwork = "none"
    /\ ops = 0
    /\ menuChoice = "none"
    /\ rlClosed = 0
    /\ mainnetCfg = Unloaded

\* MAX_TRANSACTION_RETRIES and the MAINNET_* variables unset
EnvDefaults ==
    /\ envMaxRetries = Unset
    /\ envMainnet = [k \in MainnetKeys |-> Unset]

\* SOLANA_NETWORK and SOLANA_RPC_URL unset
CliInit ==
    /\ CliLocals
    /\ cfgNetwork = "devnet"
    /\ envRpcUrl = "unset"
    /\ EnvDefaults

\* any environment the CLI may be started in
CliEnvInit ==
    /\ CliLocals
    /\ cfgNetwork \in ConfigNetworks
    /\ envRpcUrl \in {"unset", CustomRpcUrl}
    /\ EnvDefaults

\* no TokenInstructions call is running
InstrIdle ==
    /\ pc = "idle"
    /\ retpc = "idle"
    /\ method = "none"
    /\ txKind = "freeze"
    /\ txAccount = "a1"
    /\ maxRetries = DefaultMaxRetries
    /\ attempt = 0
    /\ lastError = "undefined"
    /\ raised = NoneRaised
    /\ waits = <<>>
    /\ outcomes = <<>>
    /\ sendRes = NoRes
    /\ accounts = <<>>
    /\ idx = 1
    /\ results = EmptyResults
    /\ ret = NoRes
    /\ txlog = <<>>

Init ==
    /\ InstrIdle
    /\ frozen \in [Accounts -> BOOLEAN]
    /\ TokenInit
    /\ CliInit

\* the start of a run that uses no freeze / thaw method
QuietInit ==
    /\ InstrIdle
    /\ frozen = [a \in Accounts |-> FALSE]
    /\ TokenInit
    /\ CliInit

(* ----------------- sendTransactionWithRetry (138-186) ----------------- *)
\* entry: the locals of a fresh call
EnterRetry(kind, acct, n, back) ==
    /\ txKind' = kind
    /\ txAccount' = acct
    /\ maxRetries' = n
    /\ attempt' = 0
    /\ lastError' = "undefined"
    /\ raised' = NoneRaised
    /\ waits' = <<>>
    /\ outcomes' = <<>>
    /\ sendRes' = NoRes
    /\ retpc' = back
    /\ pc' = "retry_loop"

\* the SDK call of an attempt throws e
Raise(e) ==
    raised' = [first |-> IF raised.first = "undefined" THEN e ELSE raised.first, last |-> e]

\* a catch block that keeps the first error
AttemptFailedKeepsFirst(e) ==
    /\ lastError' = IF lastError = "undefined" THEN e ELSE lastError
    /\ Raise(e)
    /\ outcomes' = Append(outcomes, "fail")
    /\ IF WaitsAfter(attempt, maxRetries)
         THEN pc' = "retry_wait" /\ attempt' = attempt
         ELSE pc' = "retry_loop" /\ attempt' = attempt + 1
    /\ UNCHANGED <<waits, sendRes, maxRetries>>

\* catch block of one attempt (173-182)
AttemptFailed(e) ==
    /\ lastError' = e
    /\ Raise(e)
    /\ outcomes' = Append(outcomes, "fail")
    /\ IF WaitsAfter(attempt, maxRetries)
         THEN pc' = "retry_wait" /\ attempt' = attempt
         ELSE pc' = "retry_loop" /\ attempt' = attempt + 1
    /\ UNCHANGED <<waits, sendRes, maxRetries>>

\* getLatestBlockhash throws: nothing is submitted in this attempt
AttemptBlockhashFails ==
    /\ pc = "retry_loop" /\ MayAttempt(attempt, maxRetries)
    /\ \E e \in Thrown : AttemptFailed(e)
    /\ UNCHANGED <<retpc, method, txKind, txAccount, batchVars, ret, txlog, frozen>>
    /\ UNCHANGED <<tokenVars, cliVars>>

\* sendAndConfirmTransaction throws
AttemptSendFails ==
    /\ pc = "retry_loop" /\ MayAttempt(attempt, maxRetries)
    /\ \E e \in Thrown : AttemptFailed(e)
    /\ txlog' = Append(txlog, [kind |-> txKind, account |-> txAccount,
                               ok |-> FALSE, item |-> idx])
    /\ UNCHANGED <<retpc, method, txKind, txAccount, batchVars, ret, frozen>>
    /\ UNCHANGED <<tokenVars, cliVars>>

\* sendAndConfirmTransaction resolves: return signature (162-172)
AttemptSucceeds ==
    /\ pc = "retry_loop" /\ MayAttempt(attempt, maxRetries)
    /\ Acceptable(txKind, txAccount)
    /\ txlog' = Append(txlog, [kind |-> txKind, account |-> txAccount,
                               ok |-> TRUE, item |-> idx])
    /\ frozen' = ApplyTx(txKind, txAccount)
    /\ outcomes' = Append(outcomes, "ok")
    /\ sendRes' = [status |-> "ok", sig |-> Len(txlog) + 1, err |-> "undefined"]
    /\ pc' = retpc
    /\ UNCHANGED <<retpc, method, txKind, txAccount, maxRetries, attempt, lastError, raised,
                   waits, batchVars, ret>>
    /\ UNCHANGED <<tokenVars, cliVars>>

\* setTimeout(resolve, delay) (179-180), then attempt++
Backoff ==
    /\ pc = "retry_wait"
    /\ waits' = Append(waits, BackoffDelay(attempt))
    /\ attempt' = attempt + 1
    /\ pc' = "retry_loop"
    /\ UNCHANGED <<retpc, method, txKind, txAccount, maxRetries, lastError, raised, outcomes,
                   sendRes, batchVars, ret, txlog, frozen>>
    /\ UNCHANGED <<tokenVars, cliVars>>

\* throw lastError (185)
RetryExhausted ==
    /\ pc = "retry_loop" /\ ~MayAttempt(attempt, maxRetries)
    /\ sendRes' = [status |-> "err", sig |-> 0, err |-> lastError]
    /\ pc' = retpc
    /\ UNCHANGED <<retpc, method, txKind, txAccount, maxRetries, attempt, lastError, raised,
                   waits, outcomes, batchVars, ret, txlog, frozen>>
    /\ UNCHANGED <<tokenVars, cliVars>>

\* no sendTransactionWithRetry call is active: its locals hold nothing
DropRetryLocals ==
    /\ maxRetries' = DefaultMaxRetries
    /\ attempt' = 0
    /\ lastError' = "undefined"
    /\ raised' = NoneRaised
    /\ waits' = <<>>
    /\ outcomes' = <<>>
    /\ sendRes' = NoRes

(* -------- direct use of the private method, any maxRetries ------------ *)
\* a public or private method is entered: the call's own bookkeeping starts empty
FreshCall(m) ==
    /\ method' = m
    /\ txlog' = <<>>
    /\ ret' = NoRes
    /\ results' = EmptyResults

CallSendTransactionWithRetry ==
    /\ pc = "idle"
    /\ \E k \in {"freeze", "thaw"}, a \in Accounts, n \in 0..MaxRetriesBound :
          EnterRetry(k, a, n, "send_ret")
    /\ FreshCall("sendTransactionWithRetry")
    /\ accounts' = <<>> /\ idx' = 0
    /\ UNCHANGED frozen
    /\ UNCHANGED <<tokenVars, cliVars>>

SendReturns ==
    /\ pc = "send_ret"
    /\ ret' = IF sendRes.status = "ok"
                THEN [status |-> "returned", sig |-> sendRes.sig, err |-> "undefined"]
                ELSE [status |-> "thrown", sig |-> 0, err |-> sendRes.err]
    /\ pc' = "done"
    /\ UNCHANGED <<retpc, method, txKind, txAccount, retryVars, batchVars, txlog, frozen>>
    /\ UNCHANGED <<tokenVars, cliVars>>

(* ------------- freezeAccount / thawAccount (353-393) ------------------ *)
FreezeFallback(kind) ==
    IF kind = "freeze" THEN "Failed to freeze account" ELSE "Failed to thaw account"

CallFreezeThaw ==
    /\ pc = "idle"
    /\ \E k \in {"freeze", "thaw"}, a \in Accounts :
          /\ EnterRetry(k, a, DefaultMaxRetries, "freeze_ret")
          /\ FreshCall(IF k = "freeze" THEN "freezeAccount" ELSE "thawAccount")
    /\ accounts' = <<>> /\ idx' = 0
    /\ UNCHANGED frozen
    /\ UNCHANGED <<tokenVars, cliVars>>

\* return await ...; catch: throw new Error(message or fallback)
FreezeThawReturns ==
    /\ pc = "freeze_ret"
    /\ ret' = IF sendRes.status = "ok"
                THEN [status |-> "returned", sig |-> sendRes.sig, err |-> "undefined"]
                ELSE [status |-> "thrown", sig |-> 0,
                      err |-> MessageOr(sendRes.err, FreezeFallback(txKind))]
    /\ pc' = "done"
    /\ UNCHANGED <<retpc, method, txKind, txAccount, retryVars, batchVars, txlog, frozen>>
    /\ UNCHANGED <<tokenVars, cliVars>>

(* ------------------ batch operations: shared pieces ------------------- *)
BatchMethods == {"batchFreezeAccounts", "batchThawAccounts"}
StaticBatchMethods == {"static batchFreezeAccounts", "static batchThawAccounts"}

BatchKind(m) ==
    IF m \in {"batchFreezeAccounts", "static batchFreezeAccounts"} THEN "freeze" ELSE "thaw"

\* unshift instead of push
PushSuccessFront(r, a) == [r EXCEPT !.successes = <<a>> \o @]

\* results.successes.push(account.toBase58())
PushSuccess(r, a) == [r EXCEPT !.successes = Append(@, a)]

\* results.failures.push({ account, error })
PushFailure(r, a, msg) ==
    [r EXCEPT !.failures = Append(@, [account |-> a, error |-> msg])]

\* 'Account is already frozen' (411) / 'Account is not frozen' (454)
AlreadyMessage(kind) ==
    IF kind = "freeze" THEN "Account is already frozen" ELSE "Account is not frozen"

\* the state in which the instance batch skips the account (408 / 451)
AlreadyInState(kind, isFrozen) == IF kind = "freeze" THEN isFrozen ELSE ~isFrozen

CallBatch ==
    /\ pc = "idle"
    /\ \E m \in BatchMethods \cup StaticBatchMethods :
          /\ FreshCall(m)
          /\ pc' = IF m \in BatchMethods THEN "batch_loop" ELSE "sbatch_loop"
    /\ accounts' \in SeqsUpTo(Accounts, MaxBatch)
    /\ idx' = 1
    /\ DropRetryLocals
    /\ UNCHANGED <<retpc, txKind, txAccount, frozen>>
    /\ UNCHANGED <<tokenVars, cliVars>>

(* ------- instance batchFreezeAccounts / batchThawAccounts (395-479) --- *)
\* a loop body without its try/catch: the error leaves batchFreezeAccounts
BatchCatchRethrows(msg) ==
    /\ ret' = [status |-> "thrown", sig |-> 0, err |-> msg]
    /\ pc' = "done"
    /\ UNCHANGED <<accounts, idx, results>>

\* catch (error) of the loop body: record the failure, go on with the next account
BatchCatch(msg) ==
    /\ results' = PushFailure(results, accounts[idx], msg)
    /\ idx' = idx + 1
    /\ pc' = "batch_loop"
    /\ UNCHANGED <<accounts, ret>>

\* await this.isAccountFrozen(account) throws (327-334)
BatchStatusFails ==
    /\ pc = "batch_loop" /\ idx <= Len(accounts)
    /\ \E e \in Thrown : BatchCatch(FreezeStatusMessage(e))
    /\ UNCHANGED <<retpc, method, txKind, txAccount, retryVars, txlog, frozen>>
    /\ UNCHANGED <<tokenVars, cliVars>>

\* the account is already in the requested state: failures.push; continue
BatchSkips ==
    /\ pc = "batch_loop" /\ idx <= Len(accounts)
    /\ AlreadyInState(BatchKind(method), frozen[accounts[idx]])
    /\ results' = PushFailure(results, accounts[idx], AlreadyMessage(BatchKind(method)))
    /\ idx' = idx + 1
    /\ UNCHANGED <<pc, retpc, method, txKind, txAccount, retryVars, accounts, ret,
                   txlog, frozen>>
    /\ UNCHANGED <<tokenVars, cliVars>>

\* await this.sendTransactionWithRetry(transaction, [payer, freezeAuthority])
BatchSends ==
    /\ pc = "batch_loop" /\ idx <= Len(accounts)
    /\ ~AlreadyInState(BatchKind(method), frozen[accounts[idx]])
    /\ EnterRetry(BatchKind(method), accounts[idx], DefaultMaxRetries, "batch_ret")
    /\ UNCHANGED <<method, batchVars, ret, txlog, frozen>>
    /\ UNCHANGED <<tokenVars, cliVars>>

\* back from sendTransactionWithRetry (its locals are gone): successes.push, or the
\* catch block
BatchAfterSend ==
    /\ pc = "batch_ret"
    /\ IF sendRes.status = "ok"
         THEN /\ results' = PushSuccess(results, accounts[idx])
              /\ idx' = idx + 1
              /\ pc' = "batch_loop"
              /\ UNCHANGED <<accounts, ret>>
         ELSE BatchCatch(MessageOr(sendRes.err, "Unknown error"))
    /\ DropRetryLocals
    /\ UNCHANGED <<retpc, method, txKind, txAccount, txlog, frozen>>
    /\ UNCHANGED <<tokenVars, cliVars>>

\* return results
BatchReturns ==
    /\ pc \in {"batch_loop", "sbatch_loop"} /\ idx > Len(accounts)
    /\ ret' = [status |-> "returned", sig |-> 0, err |-> "undefined"]
    /\ pc' = "done"
    /\ UNCHANGED <<retpc, method, txKind, txAccount, retryVars, batchVars, txlog, frozen>>
    /\ UNCHANGED <<tokenVars, cliVars>>

(* -------- static batchFreezeAccounts / batchThawAccounts (59-129) ----- *)
\* sendAndConfirmTransaction resolves: successes.push
StaticBatchItemOk ==
    /\ pc = "sbatch_loop" /\ idx <= Len(accounts)
    /\ Acceptable(BatchKind(method), accounts[idx])
    /\ txlog' = Append(txlog, [kind |-> BatchKind(method), account |-> accounts[idx],
                               ok |-> TRUE, item |-> idx])
    /\ frozen' = ApplyTx(BatchKind(method), accounts[idx])
    /\ results' = PushSuccess(results, accounts[idx])
    /\ idx' = idx + 1
    /\ UNCHANGED <<pc, retpc, method, txKind, txAccount, retryVars, accounts, ret>>
    /\ UNCHANGED <<tokenVars, cliVars>>

\* catch (error) of the static loop body
StaticBatchCatch(msg) ==
    /\ results' = PushFailure(results, accounts[idx], msg)
    /\ idx' = idx + 1
    /\ pc' = "sbatch_loop"
    /\ UNCHANGED <<accounts, ret>>

\* sendAndConfirmTransaction throws
StaticBatchItemFails ==
    /\ pc = "sbatch_loop" /\ idx <= Len(accounts)
    /\ \E e \in Thrown : StaticBatchCatch(MessageOr(e, "Unknown error"))
    /\ txlog' = Append(txlog, [kind |-> BatchKind(method), account |-> accounts[idx],
                               ok |-> FALSE, item |-> idx])
    /\ UNCHANGED <<retpc, method, txKind, txAccount, retryVars, frozen>>
    /\ UNCHANGED <<tokenVars, cliVars>>

\* the caller takes the result; the object is ready for the next call
Reset ==
    /\ pc = "done"
    /\ pc' = "idle"
    /\ retpc' = "idle" /\ method' = "none" /\ txKind' = "freeze" /\ txAccount' = "a1"
    /\ DropRetryLocals
    /\ accounts' = <<>> /\ idx' = 1 /\ results' = EmptyResults
    /\ ret' = NoRes /\ txlog' = <<>>
    /\ UNCHANGED frozen
    /\ UNCHANGED <<tokenVars, cliVars>>

\* sendTransactionWithRetry and its single-transaction callers
RetryNext ==
    \/ CallSendTransactionWithRetry
    \/ CallFreezeThaw
    \/ AttemptBlockhashFails
    \/ AttemptSendFails
    \/ AttemptSucceeds
    \/ Backoff
    \/ RetryExhausted
    \/ SendReturns
    \/ FreezeThawReturns
    \/ Reset

Next ==
    \/ CallSendTransactionWithRetry
    \/ CallFreezeThaw
    \/ CallBatch
    \/ AttemptBlockhashFails
    \/ AttemptSendFails
    \/ AttemptSucceeds
    \/ Backoff
    \/ RetryExhausted
    \/ SendReturns
    \/ FreezeThawReturns
    \/ BatchStatusFails
    \/ BatchSkips
    \/ BatchSends
    \/ BatchAfterSend
    \/ BatchReturns
    \/ StaticBatchItemOk
    \/ StaticBatchItemFails
    \/ Reset

Spec == Init /\ [][Next]_vars

\* every awaited SDK call and timer completes
RetrySpec == Init /\ [][RetryNext]_vars /\ WF_vars(RetryNext)

\* values of MAX_TRANSACTION_RETRIES the program may be started with
EnvRetryValues == {Unset, EnvNumber(1), EnvNumber(2), EnvNumber(5)}

\* the program started with MAX_TRANSACTION_RETRIES unset or set to a number
RetryEnvInit ==
    /\ InstrIdle
    /\ frozen \in [Accounts -> BOOLEAN]
    /\ TokenInit
    /\ CliLocals
    /\ cfgNetwork = "devnet"
    /\ envRpcUrl = "unset"
    /\ envMaxRetries \in EnvRetryValues
    /\ envMainnet = [k \in MainnetKeys |-> Unset]

\* instructions.ts:604  Number(process.env.MAX_TRANSACTION_RETRIES) || 3, the default
\* maxRetries of executeWithRetry; no code calls executeWithRetry, and
\* sendTransactionWithRetry does not read the environment
ExecuteWithRetryDefault ==
    IF envMaxRetries.set /\ envMaxRetries.val # 0 THEN envMaxRetries.val ELSE 3

RetryEnvSpec == RetryEnvInit /\ [][RetryNext]_vars
(* =============== TokenInstructions: single-call methods ================ *)
(* A method run is the list of SDK calls it issues, its outcome, and the    *)
(* cluster state it leaves.  Every SDK call may throw SdkError.             *)
Fail(c, msg, auth, atas) ==
    [calls |-> c, ok |-> FALSE, val |-> msg, auth |-> auth, ata |-> atas, args |-> NoArgs]
Done(c, val, auth, atas) ==
    [calls |-> c, ok |-> TRUE, val |-> val, auth |-> auth, ata |-> atas, args |-> NoArgs]

\* getOrCreateAssociatedTokenAccount(connection, payer, mint, owner): returns the
\* account when it exists, otherwise submits the transaction that creates it
ATARuns(owner, m, auth, atas) ==
    {[calls |-> <<"getOrCreateAssociatedTokenAccount">>, ok |-> FALSE, ata |-> atas]}
    \cup
    (IF <<owner, m>> \in atas
       THEN {[calls |-> <<"getOrCreateAssociatedTokenAccount">>, ok |-> TRUE, ata |-> atas]}
       ELSE IF auth[m] = Absent THEN {}
       ELSE {[calls |-> <<"getOrCreateAssociatedTokenAccount", "tx:createAssociatedTokenAccount">>,
              ok |-> TRUE, ata |-> atas \cup {<<owner, m>>}],
             [calls |-> <<"getOrCreateAssociatedTokenAccount", "tx:createAssociatedTokenAccount">>,
              ok |-> FALSE, ata |-> atas]})

\* a missing authority passes the check
AuthorityMatchesOrNull(a, kp) == a = Null \/ a = kp

\* mintInfo.mintAuthority?.equals(keypair.publicKey)  (491, 531, 344)
AuthorityMatches(a, kp) == a # Null /\ a = kp

\* the mint addresses no account uses yet
FreshMints(auth) == {m \in Mints : auth[m] = Absent}

\* createToken (188-230); ma is the mintAuthority argument or "undefined"
CreateTokenRuns(payer, ma, auth, atas) ==
    LET authority == IF ma = "undefined" THEN payer ELSE ma IN
    {Fail(<<"createMint">>, SdkError, auth, atas)}
    \cup
    UNION {
      LET auth2 == [auth EXCEPT ![m] = authority] IN
      UNION {
        IF ~a.ok THEN {Fail(<<"createMint">> \o a.calls, SdkError, auth2, a.ata)}
        ELSE {Fail(<<"createMint">> \o a.calls \o <<"mintTo">>, SdkError, auth2, a.ata)}
             \cup (IF authority = payer
                     THEN {Done(<<"createMint">> \o a.calls \o <<"mintTo">>, m, auth2, a.ata)}
                     ELSE {})
        : a \in ATARuns(payer, m, auth2, atas)}
      : m \in FreshMints(auth)}

\* the decimals field of the mint accounts
MintDecimals == [m \in Mints |-> IF m = "m1" THEN 2 ELSE 0]

RECURSIVE Pow10(_)
Pow10(n) == IF n = 0 THEN 1 ELSE 10 * Pow10(n - 1)

\* instructions.ts:253  amount * Math.pow(10, mintInfo.decimals)
RawAmount(amount, decimals) == amount * Pow10(decimals)

\* transfer without the recipient's account step
TransferCallsSkipRecipient(m, payer, recipient, auth, atas) ==
    UNION {
      IF ~a.ok THEN {Fail(a.calls, SdkError, auth, a.ata)}
      ELSE {Fail(a.calls \o <<"getMint">>, SdkError, auth, a.ata),
            Fail(a.calls \o <<"getMint", "transfer">>, SdkError, auth, a.ata),
            Done(a.calls \o <<"getMint", "transfer">>, "signature", auth, a.ata)}
      : a \in ATARuns(payer, m, auth, atas)}

\* transfer (232-268): the SDK calls and the outcome
TransferCalls(m, payer, recipient, auth, atas) ==
    UNION {
      IF ~a.ok THEN {Fail(a.calls, SdkError, auth, a.ata)}
      ELSE UNION {
        IF ~b.ok THEN {Fail(a.calls \o b.calls, SdkError, auth, b.ata)}
        ELSE {Fail(a.calls \o b.calls \o <<"getMint">>, SdkError, auth, b.ata),
              Fail(a.calls \o b.calls \o <<"getMint", "transfer">>, SdkError, auth, b.ata),
              Done(a.calls \o b.calls \o <<"getMint", "transfer">>, "signature", auth, b.ata)}
        : b \in ATARuns(recipient, m, auth, a.ata)}
      : a \in ATARuns(payer, m, auth, atas)}

\* transfer (232-268) with its arguments; rawAmount is computed after getMint returned
TransferRuns(m, payer, recipient, amount, auth, atas) ==
    {[r EXCEPT !.args = [recipient |-> recipient, amount |-> amount,
                         raw |-> IF \E i \in 1..Len(r.calls) : r.calls[i] = "transfer"
                                   THEN RawAmount(amount, MintDecimals[m]) ELSE 0]]
       : r \in TransferCalls(m, payer, recipient, auth, atas)}

\* burn (270-298)
BurnRuns(m, payer, auth, atas) ==
    UNION {
      IF ~a.ok THEN {Fail(a.calls, SdkError, auth, a.ata)}
      ELSE {Fail(a.calls \o <<"getMint">>, SdkError, auth, a.ata),
            Fail(a.calls \o <<"getMint", "burn">>, SdkError, auth, a.ata),
            Done(a.calls \o <<"getMint", "burn">>, "signature", auth, a.ata)}
      : a \in ATARuns(payer, m, auth, atas)}

\* getTokenBalance (300-325)
GetTokenBalanceRuns(m, payer, auth, atas) ==
    LET pre == "Failed to get token balance: " IN
    UNION {
      IF ~a.ok THEN {Fail(a.calls, pre \o SdkError, auth, a.ata)}
      ELSE {Fail(a.calls \o <<"getAccount">>, pre \o SdkError, auth, a.ata),
            Fail(a.calls \o <<"getAccount", "getMint">>, pre \o SdkError, auth, a.ata),
            Done(a.calls \o <<"getAccount", "getMint">>, "balance", auth, a.ata)}
      : a \in ATARuns(payer, m, auth, atas)}

\* mintMoreTokens (481-520)
MintMoreTokensRuns(m, kp, payer, auth, atas) ==
    LET pre == "Failed to mint tokens: " IN
    {Fail(<<"getMint">>, pre \o SdkError, auth, atas)}
    \cup
    (IF auth[m] = Absent THEN {}
     ELSE IF ~AuthorityMatches(auth[m], kp)
       THEN {Fail(<<"getMint">>, pre \o "Provided keypair is not the mint authority", auth, atas)}
       ELSE UNION {
         IF ~a.ok THEN {Fail(<<"getMint">> \o a.calls, pre \o SdkError, auth, a.ata)}
         ELSE {Fail(<<"getMint">> \o a.calls \o <<"mintTo">>, pre \o SdkError, auth, a.ata)}
              \cup (IF auth[m] = kp
                      THEN {Done(<<"getMint">> \o a.calls \o <<"mintTo">>, "signature", auth, a.ata)}
                      ELSE {})
         : a \in ATARuns(payer, m, auth, atas)})

\* disableMinting (522-549)
DisableMintingRuns(m, kp, auth, atas) ==
    LET pre == "Failed to disable minting: " IN
    {Fail(<<"getMint">>, pre \o SdkError, auth, atas)}
    \cup
    (IF auth[m] = Absent THEN {}
     ELSE IF ~AuthorityMatches(auth[m], kp)
       THEN {Fail(<<"getMint">>, pre \o "Provided keypair is not the mint authority", auth, atas)}
       ELSE {Fail(<<"getMint", "setAuthority">>, pre \o SdkError, auth, atas)}
            \cup (IF auth[m] = kp
                    THEN {Done(<<"getMint", "setAuthority">>, "signature",
                               [auth EXCEPT ![m] = Null], atas)}
                    ELSE {}))

\* verifyAuthority(mint, authority, 'mint') (336-351): the value it returns
VerifyAuthority(a, kp) == AuthorityMatches(a, kp)

\* updateMintAuthority (551-574); na is the new authority or "undefined"
UpdateMintAuthorityRuns(m, kp, na, auth, atas) ==
    LET pre == "Failed to update mint authority: " IN
    {Fail(<<"getMint">>, pre \o "Failed to verify mint authority: " \o SdkError, auth, atas)}
    \cup
    (IF auth[m] = Absent THEN {}
     ELSE IF ~VerifyAuthority(auth[m], kp)
       THEN {Fail(<<"getMint">>, pre \o "Invalid mint authority", auth, atas)}
       ELSE {Fail(<<"getMint", "setAuthority">>, pre \o SdkError, auth, atas)}
            \cup (IF auth[m] = kp
                    THEN {Done(<<"getMint", "setAuthority">>, "signature",
                               [auth EXCEPT ![m] = IF na = "undefined" THEN Null ELSE na],
                               atas)}
                    ELSE {}))

\* the static stubs (41-58) and transferTokens / burnTokens (35-40)
NotImplemented ==
    {"static disableMinting", "static updateMintAuthority", "static updateFreezeAuthority",
     "static isAccountFrozen", "static freezeAccount", "static thawAccount",
     "transferTokens", "burnTokens"}

NotImplementedRuns(auth, atas) == {Fail(<<>>, "Method not implemented.", auth, atas)}

\* the calls of a run, as issued over connection c
Tag(c, cs) == [i \in 1..Len(cs) |-> [fn |-> cs[i], conn |-> c]]

\* a method ran: its calls were issued, the cluster changed, it returned or threw
Commit(meth, m, kp, c, r) ==
    /\ tMethod' = meth
    /\ tMint' = m
    /\ tKey' = kp
    /\ tRet' = [ok |-> r.ok, val |-> r.val]
    /\ tArgs' = r.args
    /\ mintAuthority' = r.auth
    /\ ata' = r.ata

(* ------------- a client of one TokenInstructions object --------------- *)
ApiCreateToken ==
    /\ \E payer \in Keys, ma \in Keys \cup {"undefined"} :
         \E r \in CreateTokenRuns(payer, ma, mintAuthority, ata) :
            /\ Commit("createToken", IF r.ok THEN r.val ELSE tMint, payer, "devnet", r)
            /\ calls' = Tag("devnet", r.calls)
    /\ UNCHANGED <<metadata, instrVars, cliVars>>

ApiTransfer ==
    /\ \E m \in Mints, payer \in Keys, rc \in Keys, amount \in Amounts :
         \E r \in TransferRuns(m, payer, rc, amount, mintAuthority, ata) :
            /\ Commit("transfer", m, payer, "devnet", r)
            /\ calls' = Tag("devnet", r.calls)
    /\ UNCHANGED <<metadata, instrVars, cliVars>>

ApiBurn ==
    /\ \E m \in Mints, payer \in Keys :
         \E r \in BurnRuns(m, payer, mintAuthority, ata) :
            /\ Commit("burn", m, payer, "devnet", r)
            /\ calls' = Tag("devnet", r.calls)
    /\ UNCHANGED <<metadata, instrVars, cliVars>>

ApiGetTokenBalance ==
    /\ \E m \in Mints, payer \in Keys :
         \E r \in GetTokenBalanceRuns(m, payer, mintAuthority, ata) :
            /\ Commit("getTokenBalance", m, payer, "devnet", r)
            /\ calls' = Tag("devnet", r.calls)
    /\ UNCHANGED <<metadata, instrVars, cliVars>>

ApiMintMoreTokens ==
    /\ \E m \in Mints, kp \in Keys, payer \in Keys :
         \E r \in MintMoreTokensRuns(m, kp, payer, mintAuthority, ata) :
            /\ Commit("mintMoreTokens", m, kp, "devnet", r)
            /\ calls' = Tag("devnet", r.calls)
    /\ UNCHANGED <<metadata, instrVars, cliVars>>

ApiDisableMinting ==
    /\ \E m \in Mints, kp \in Keys :
         \E r \in DisableMintingRuns(m, kp, mintAuthority, ata) :
            /\ Commit("disableMinting", m, kp, "devnet", r)
            /\ calls' = Tag("devnet", r.calls)
    /\ UNCHANGED <<metadata, instrVars, cliVars>>

ApiUpdateMintAuthority ==
    /\ \E m \in Mints, kp \in Keys, na \in Keys \cup {"undefined"} :
         \E r \in UpdateMintAuthorityRuns(m, kp, na, mintAuthority, ata) :
            /\ Commit("updateMintAuthority", m, kp, "devnet", r)
            /\ calls' = Tag("devnet", r.calls)
    /\ UNCHANGED <<metadata, instrVars, cliVars>>

ApiNotImplemented ==
    /\ \E meth \in NotImplemented, m \in Mints, kp \in Keys :
         \E r \in NotImplementedRuns(mintAuthority, ata) :
            /\ Commit(meth, m, kp, "devnet", r)
            /\ calls' = Tag("devnet", r.calls)
    /\ UNCHANGED <<metadata, instrVars, cliVars>>

TokenNext ==
    \/ ApiCreateToken
    \/ ApiTransfer
    \/ ApiBurn
    \/ ApiGetTokenBalance
    \/ ApiMintMoreTokens
    \/ ApiDisableMinting
    \/ ApiUpdateMintAuthority
    \/ ApiNotImplemented

TokenSpec == QuietInit /\ [][TokenNext]_vars

(* ======================= MetadataManager ============================== *)
\* getTokenMetadata (63-97): the metadata when the account exists and decodes,
\* null when there is none or anything throws
GetTokenMetadataFound(m, md) == IF m \in md THEN {TRUE, FALSE} ELSE {FALSE}

\* setMetadata that builds the create instruction whether or not the account exists
SetMetadataRunsAlwaysCreate(m, payer, auth, md) ==
    {[calls |-> <<"getAccountInfo">>, ok |-> FALSE, val |-> "isUpdate is not defined", md |-> md],
     [calls |-> <<"getAccountInfo", "tx:createMetadata">>, ok |-> FALSE,
      val |-> "isUpdate is not defined", md |-> md]}
    \cup (IF auth[m] = payer
            THEN {[calls |-> <<"getAccountInfo", "tx:createMetadata">>, ok |-> TRUE,
                   val |-> "signature", md |-> md \cup {m}]}
            ELSE {})

\* setMetadata (159-232); the catch block reads isUpdate, which is out of scope there
\* the metadata program creates the account only for the mint's authority
SetMetadataRuns(m, payer, auth, md) ==
    {[calls |-> <<"getAccountInfo">>, ok |-> FALSE, val |-> "isUpdate is not defined", md |-> md]}
    \cup
    (IF m \in md
       THEN {[calls |-> <<"getAccountInfo", "tx:updateMetadata">>, ok |-> TRUE,
              val |-> "signature", md |-> md],
             [calls |-> <<"getAccountInfo", "tx:updateMetadata">>, ok |-> FALSE,
              val |-> "isUpdate is not defined", md |-> md]}
       ELSE {[calls |-> <<"getAccountInfo", "tx:createMetadata">>, ok |-> FALSE,
              val |-> "isUpdate is not defined", md |-> md]}
            \cup (IF auth[m] = payer
                    THEN {[calls |-> <<"getAccountInfo", "tx:createMetadata">>, ok |-> TRUE,
                           val |-> "signature", md |-> md \cup {m}]}
                    ELSE {}))

(* ------------- a client of one MetadataManager object ----------------- *)
MetadataMethods == {"setMetadata", "createMetadata", "updateMetadata"}

\* createMetadata (234-240) and updateMetadata (242-248) return this.setMetadata(...)
MetadataCall(meth) ==
    /\ \E m \in Mints, payer \in Keys :
         \E r \in SetMetadataRuns(m, payer, mintAuthority, metadata) :
            /\ tMethod' = meth /\ tMint' = m /\ tKey' = payer
            /\ tRet' = [ok |-> r.ok, val |-> r.val]
            /\ tArgs' = NoArgs
            /\ metadata' = r.md
            /\ calls' = Tag("devnet", r.calls)
    /\ UNCHANGED <<mintAuthority, ata, instrVars, cliVars>>

ApiSetMetadata == MetadataCall("setMetadata")

ApiCreateMetadata == MetadataCall("createMetadata")

ApiUpdateMetadata == MetadataCall("updateMetadata")

MetadataNext ==
    \/ ApiCreateToken
    \/ ApiSetMetadata
    \/ ApiCreateMetadata
    \/ ApiUpdateMetadata

MetadataSpec == QuietInit /\ [][MetadataNext]_vars

(* ============================ index.ts ================================ *)
\* String.prototype.toLowerCase on the strings a user types here
ToLowerCase(str) ==
    CASE str = "Y" -> "y"
      [] str = "YES" -> "yes"
      [] str = "MAINNET" -> "mainnet"
      [] str = "MAINNET-BETA" -> "mainnet-beta"
      [] str = "Devnet" -> "devnet"
      [] str = "DISABLE MINTING" -> "disable minting"
      [] OTHER -> str

YesNoAnswers == {"y", "Y", "n", "", "YES"}
MainnetAnswers == {"MAINNET", "mainnet", "y", ""}
FinalAnswers == {"DISABLE MINTING", "disable minting", "y", ""}
NetworkInputs == {"", "devnet", "Devnet", "mainnet-beta", "MAINNET-BETA", "testnet", "bogus"}

\* validateNetwork (156-165): the normalized name, or "invalid" when it throws
ValidateNetwork(input) ==
    IF ToLowerCase(input) \in {"devnet", "mainnet-beta", "testnet"}
      THEN ToLowerCase(input) ELSE "invalid"

\* question(...) || 'devnet'
NetworkOrDefault(input) == IF input = "" THEN "devnet" ELSE input

\* clusterApiUrl(network)
ClusterApiUrl(n) == "https://api." \o n \o ".solana.com"

\* getConnection (33-47): the endpoint of the Connection it builds
GetConnection(n) ==
    IF n = "mainnet-beta"
      THEN (IF envRpcUrl # "unset" THEN envRpcUrl ELSE ClusterApiUrl(n))
      ELSE ClusterApiUrl(n)

\* the airdrop goes to whatever network is configured
AirdropConnectionConfigured == GetConnection(cfgNetwork)

\* requestDevnetAirdrop (106): getConnection('devnet')
AirdropConnection == GetConnection("devnet")

\* an empty answer counts as yes
ProceedsUnlessNo(ans) == ToLowerCase(ans) # "n"

\* proceed.toLowerCase() !== 'y' (252, 375, 456, 622, 724, 955)
Proceeds(ans) == ToLowerCase(ans) = "y"

\* the confirmation compared without regard to case
MainnetConfirmedAnyCase(ans) == ToLowerCase(ans) = "mainnet"

\* confirm === 'MAINNET' (66)
MainnetConfirmed(ans) == ans = "MAINNET"

\* the confirmation compared without regard to case
FinalConfirmedAnyCase(ans) == ToLowerCase(ans) = "disable minting"

\* proceed !== 'DISABLE MINTING' (1008)
FinalConfirmed(ans) == ans = "DISABLE MINTING"

\* network === 'devnet' && balance < LAMPORTS_PER_SOL * 0.1 (232, 355, 436, 515, 602, 704)
OffersAirdrop(n, low) == n = "devnet" /\ low

\* main, case '9' (1133): network !== 'devnet' refuses
MenuAirdropAllowed(n) == n = "devnet"

StandardFlows == {"createToken", "transferTokens", "burnTokens", "checkBalance",
                  "setTokenMetadata", "updateMetadata"}
ConfirmedFlows == {"mintMoreTokens", "disableTokenMinting"}

\* the parameter questions of each operation, in order
ParamPrompts(f, customMintAuth, customFreezeAuth) ==
    CASE f = "createToken" ->
           <<"walletPath", "name", "symbol", "amount", "decimals", "network", "setMintAuth">>
           \o (IF customMintAuth THEN <<"mintAuthority">> ELSE <<>>)
           \o <<"setFreezeAuth">>
           \o (IF customFreezeAuth THEN <<"freezeAuthority">> ELSE <<>>)
      [] f = "transferTokens" -> <<"walletPath", "mint", "recipient", "amount", "network">>
      [] f = "burnTokens" -> <<"walletPath", "mint", "amount", "network">>
      [] f = "checkBalance" -> <<"walletPath", "mint", "network">>
      [] f = "setTokenMetadata" -> <<"walletPath", "mint", "name", "symbol", "uri", "network">>
      [] f = "updateMetadata" -> <<"walletPath", "mint", "name", "symbol", "uri", "network">>
      [] f = "mintMoreTokens" -> <<"walletPath", "mint", "amount", "network">>
      [] f = "disableTokenMinting" -> <<"walletPath", "mint", "network">>

\* where an operation goes once its parameters, wallet and connection are ready
AfterBalance(f) == IF f = "checkBalance" THEN "exec" ELSE "estimate"

Issue(fns, c) == calls' = calls \o Tag(c, fns)

tokenResultVars == <<tMethod, tMint, tKey, tRet, tArgs>>
clusterVars == <<mintAuthority, ata, metadata>>
answerVars == <<proceedAns, mainnetAns, finalAns>>

\* the catch block of an operation: print the error, then pressEnterToContinue
Caught == out' = out \cup {"error"} /\ cpc' = "enter"

\* the cases of options 7 and 8 exchanged
MenuTargetSwapped(choice) ==
    CASE choice = "1" -> "createToken"
      [] choice = "2" -> "transferTokens"
      [] choice = "3" -> "burnTokens"
      [] choice = "4" -> "checkBalance"
      [] choice = "5" -> "setTokenMetadata"
      [] choice = "6" -> "manageAuthorities"
      [] choice = "7" -> "disableTokenMinting"
      [] choice = "8" -> "mintMoreTokens"
      [] choice = "9" -> "requestDevnetAirdrop"
      [] choice = "10" -> "showHelp"
      [] choice = "11" -> "exit"
      [] OTHER -> "invalid"

\* main (1087-1150): the menu question and the dispatch on the choice
MenuTarget(choice) ==
    CASE choice = "1" -> "createToken"
      [] choice = "2" -> "transferTokens"
      [] choice = "3" -> "burnTokens"
      [] choice = "4" -> "checkBalance"
      [] choice = "5" -> "setTokenMetadata"
      [] choice = "6" -> "manageAuthorities"
      [] choice = "7" -> "mintMoreTokens"
      [] choice = "8" -> "disableTokenMinting"
      [] choice = "9" -> "requestDevnetAirdrop"
      [] choice = "10" -> "showHelp"
      [] choice = "11" -> "exit"
      [] OTHER -> "invalid"

MenuChoices == {"1", "2", "3", "4", "5", "6", "7", "8", "9", "10", "11", "", "0", "12"}

MenuChoose ==
    /\ cpc = "menu"
    /\ \E choice \in MenuChoices :
         /\ menuChoice' = choice
         /\ rlClosed' = IF MenuTarget(choice) = "exit" THEN rlClosed + 1 ELSE rlClosed
         /\ flow' = MenuTarget(choice)
         /\ cpc' = CASE MenuTarget(choice) \in StandardFlows \cup ConfirmedFlows
                                               \cup {"manageAuthorities"} -> "params"
                     [] MenuTarget(choice) = "requestDevnetAirdrop" ->
                          IF MenuAirdropAllowed(cfgNetwork) THEN "airdrop" ELSE "enter"
                     [] MenuTarget(choice) = "exit" -> "exited"
                     [] OTHER -> "enter"
         /\ out' = CASE MenuTarget(choice) = "requestDevnetAirdrop"
                          /\ ~MenuAirdropAllowed(cfgNetwork) -> {"Airdrop is only available on devnet!"}
                     [] MenuTarget(choice) = "invalid" -> {"Invalid option"}
                     [] MenuTarget(choice) = "exit" -> {"Goodbye"}
                     [] OTHER -> {}
    /\ ops < MaxOperations /\ ops' = ops + 1
    /\ prompts' = <<"menu">>
    /\ calls' = <<>>
    /\ network' = "devnet" /\ conn' = "none"
    /\ proceedAns' = "unasked" /\ mainnetAns' = "unasked" /\ finalAns' = "unasked"
    /\ airdropBack' = "menu" /\ cMintAuth' = "undefined" /\ savedNetwork' = "none"
    /\ tMethod' = "none" /\ tRet' = NoRet /\ tArgs' = NoArgs
    /\ UNCHANGED <<envVars, mainnetCfg, wallet, cmint, tMint, tKey, clusterVars, instrVars>>

\* an operation of the updateMetadata function, which main never dispatches to
CallUpdateMetadata ==
    /\ cpc = "menu"
    /\ flow' = "updateMetadata"
    /\ cpc' = "params"
    /\ ops < MaxOperations /\ ops' = ops + 1
    /\ menuChoice' = "none" /\ rlClosed' = rlClosed
    /\ out' = {}
    /\ prompts' = <<>>
    /\ calls' = <<>>
    /\ network' = "devnet" /\ conn' = "none"
    /\ proceedAns' = "unasked" /\ mainnetAns' = "unasked" /\ finalAns' = "unasked"
    /\ airdropBack' = "menu" /\ cMintAuth' = "undefined" /\ savedNetwork' = "none"
    /\ tMethod' = "none" /\ tRet' = NoRet /\ tArgs' = NoArgs
    /\ UNCHANGED <<envVars, mainnetCfg, wallet, cmint, tMint, tKey, clusterVars, instrVars>>

\* the questions were asked; validateNetwork, an input check or loadWalletKey throws
ParamsRejected ==
    /\ cpc = "params" /\ flow \in StandardFlows \cup ConfirmedFlows
    /\ \E cm, cf \in BOOLEAN, input \in NetworkInputs :
         /\ flow # "createToken" => ~cm /\ ~cf
         /\ prompts' = prompts \o ParamPrompts(flow, cm, cf)
         /\ network' = IF flow \in ConfirmedFlows \/ ValidateNetwork(NetworkOrDefault(input)) = "invalid"
                         THEN network
                         ELSE ValidateNetwork(NetworkOrDefault(input))
    /\ Caught
    /\ UNCHANGED <<flow, ops, menuChoice, rlClosed, mainnetCfg, envVars, conn, wallet, cmint, answerVars, airdropBack,
                   cMintAuth, savedNetwork, calls, tokenResultVars, clusterVars, instrVars>>

\* the parameters are accepted: the wallet is loaded and the connection built
ParamsAccepted(input, w, m, cm, ma) ==
    /\ ValidateNetwork(NetworkOrDefault(input)) # "invalid"
    /\ network' = ValidateNetwork(NetworkOrDefault(input))
    /\ conn' = GetConnection(ValidateNetwork(NetworkOrDefault(input)))
    /\ wallet' = w
    /\ cmint' = m
    /\ cMintAuth' = IF cm /\ ma # "" THEN ma ELSE "undefined"

\* the standard operations up to the balance check (e.g. 179-241)
StandardParams ==
    /\ cpc = "params" /\ flow \in StandardFlows
    /\ \E input \in NetworkInputs, w \in Keys, m \in Mints, cm, cf \in BOOLEAN,
          ma \in Keys \cup {""}, low \in BOOLEAN, found \in BOOLEAN,
          balanceThrows \in BOOLEAN :
         /\ found \in GetTokenMetadataFound(m, metadata)
         /\ flow # "createToken" => ~cm /\ ~cf /\ ma = ""
         /\ ~cm => ma = ""
         /\ flow \notin {"setTokenMetadata", "updateMetadata"} => ~found
         /\ ParamsAccepted(input, w, m, cm, ma)
         /\ prompts' = prompts \o ParamPrompts(flow, cm, cf)
         /\ LET c == GetConnection(ValidateNetwork(NetworkOrDefault(input)))
                reads == IF flow \in {"setTokenMetadata", "updateMetadata"}
                           THEN <<"getAccountInfo">> ELSE <<>>
            IN
            IF flow = "updateMetadata" /\ ~found
              THEN Issue(reads, c) /\ Caught
              ELSE /\ Issue(reads \o <<"getBalance">>, c)
                   /\ IF balanceThrows THEN Caught
                      ELSE /\ out' = out
                           /\ cpc' = IF OffersAirdrop(ValidateNetwork(NetworkOrDefault(input)), low)
                                       THEN "offer" ELSE AfterBalance(flow)
    /\ UNCHANGED <<flow, ops, menuChoice, rlClosed, mainnetCfg, envVars, answerVars, airdropBack, savedNetwork,
                   tokenResultVars, clusterVars, instrVars>>

\* 'Would you like to request an airdrop? (y/N)'
AirdropOffer ==
    /\ cpc = "offer"
    /\ prompts' = Append(prompts, "airdropOffer")
    /\ \E ans \in YesNoAnswers :
         IF ToLowerCase(ans) = "y"
           THEN cpc' = "airdrop" /\ airdropBack' = AfterBalance(flow)
           ELSE cpc' = AfterBalance(flow) /\ airdropBack' = airdropBack
    /\ UNCHANGED <<flow, ops, menuChoice, rlClosed, mainnetCfg, envVars, network, conn, wallet, cmint, out, answerVars,
                   cMintAuth, savedNetwork, calls, tokenResultVars, clusterVars, instrVars>>

\* requestDevnetAirdrop (96-125): everything up to its own catch
RequestDevnetAirdrop ==
    /\ cpc = "airdrop"
    /\ prompts' = Append(prompts, "airdropWallet")
    /\ \/ /\ out' = out \cup {"Error requesting airdrop"}          \* no wallet file
          /\ calls' = calls
       \/ /\ out' = out \cup {"Error requesting airdrop"}          \* getBalance throws
          /\ Issue(<<"getBalance">>, AirdropConnection)
       \/ /\ out' = out \cup {"Error requesting airdrop"}          \* requestAirdrop throws
          /\ Issue(<<"getBalance", "requestAirdrop">>, AirdropConnection)
       \/ /\ out' = out \cup {"Error requesting airdrop"}          \* confirmTransaction throws
          /\ Issue(<<"getBalance", "requestAirdrop", "confirmTransaction">>, AirdropConnection)
       \/ /\ out' = out \cup {"Airdrop successful!"}
          /\ Issue(<<"getBalance", "requestAirdrop", "confirmTransaction", "getBalance">>,
                   AirdropConnection)
    /\ cpc' = "airdrop_enter"
    /\ UNCHANGED <<flow, ops, menuChoice, rlClosed, mainnetCfg, envVars, network, conn, wallet, cmint, answerVars,
                   airdropBack, cMintAuth, savedNetwork, tokenResultVars, clusterVars,
                   instrVars>>

\* requestDevnetAirdrop (127): pressEnterToContinue, then back to the caller
AirdropPressEnter ==
    /\ cpc = "airdrop_enter"
    /\ prompts' = Append(prompts, "pressEnter")
    /\ cpc' = airdropBack
    /\ UNCHANGED <<flow, ops, menuChoice, rlClosed, mainnetCfg, envVars, network, conn, wallet, cmint, out, answerVars,
                   airdropBack, cMintAuth, savedNetwork, calls, tokenResultVars, clusterVars,
                   instrVars>>

\* estimateTransactionCost (130-148)
EstimateCost ==
    /\ cpc = "estimate"
    /\ \/ Issue(<<"getLatestBlockhash">>, conn) /\ Caught
       \/ Issue(<<"getLatestBlockhash", "getMinimumBalanceForRentExemption">>, conn) /\ Caught
       \/ /\ Issue(<<"getLatestBlockhash", "getMinimumBalanceForRentExemption">>, conn)
          /\ out' = out /\ cpc' = "proceed"
    /\ UNCHANGED <<flow, ops, menuChoice, rlClosed, mainnetCfg, envVars, network, conn, wallet, cmint, prompts,
                   answerVars, airdropBack, cMintAuth, savedNetwork, tokenResultVars,
                   clusterVars, instrVars>>

\* the proceed question: anything but y / Y prints 'Operation cancelled' and returns
ProceedPrompt ==
    /\ cpc = "proceed"
    /\ prompts' = Append(prompts, "proceed")
    /\ \E ans \in YesNoAnswers :
         /\ proceedAns' = ans
         /\ IF Proceeds(ans)
              THEN cpc' = "exec" /\ out' = out
              ELSE cpc' = "menu" /\ out' = out \cup {"Operation cancelled"}
    /\ UNCHANGED <<flow, ops, menuChoice, rlClosed, mainnetCfg, envVars, network, conn, wallet, cmint, mainnetAns,
                   finalAns, airdropBack, cMintAuth, savedNetwork, calls, tokenResultVars,
                   clusterVars, instrVars>>

\* mintMoreTokens / disableTokenMinting up to confirmMainnetOperation (929-940, 980-990)
ConfirmedParams ==
    /\ cpc = "params" /\ flow \in ConfirmedFlows
    /\ \E input \in NetworkInputs, w \in Keys, m \in Mints :
         ParamsAccepted(input, w, m, FALSE, "")
    /\ prompts' = prompts \o ParamPrompts(flow, FALSE, FALSE)
    /\ cpc' = "mainnet"
    /\ UNCHANGED <<flow, ops, menuChoice, rlClosed, mainnetCfg, envVars, out, answerVars, airdropBack, savedNetwork,
                   calls, tokenResultVars, clusterVars, instrVars>>

\* what follows confirmMainnetOperation in the two flows that call it
AfterMainnet(f) == IF f = "mintMoreTokens" THEN "proceed" ELSE "final"

\* confirmMainnetOperation (49-67) and the test of its result (943, 993)
ConfirmMainnetOperation ==
    /\ cpc = "mainnet"
    /\ IF network # "mainnet-beta"
         THEN /\ cpc' = AfterMainnet(flow)
              /\ UNCHANGED <<prompts, calls, out, mainnetAns>>
         ELSE /\ Issue(<<"getBalance">>, conn)
              /\ \/ Caught /\ UNCHANGED <<prompts, mainnetAns>>
                 \/ /\ prompts' = Append(prompts, "mainnetConfirm")
                    /\ \E ans \in MainnetAnswers :
                         /\ mainnetAns' = ans
                         /\ IF MainnetConfirmed(ans)
                              THEN cpc' = AfterMainnet(flow) /\ out' = out
                              ELSE cpc' = "menu" /\ out' = out \cup {"Operation cancelled"}
    /\ UNCHANGED <<flow, ops, menuChoice, rlClosed, mainnetCfg, envVars, network, conn, wallet, cmint, proceedAns,
                   finalAns, airdropBack, cMintAuth, savedNetwork, tokenResultVars,
                   clusterVars, instrVars>>

\* disableTokenMinting (1000-1011): the final warning and its prompt
FinalPrompt ==
    /\ cpc = "final"
    /\ prompts' = Append(prompts, "final")
    /\ \E ans \in FinalAnswers :
         /\ finalAns' = ans
         /\ IF FinalConfirmed(ans)
              THEN cpc' = "exec" /\ out' = out
              ELSE cpc' = "menu" /\ out' = out \cup {"Operation cancelled"}
    /\ UNCHANGED <<flow, ops, menuChoice, rlClosed, mainnetCfg, envVars, network, conn, wallet, cmint, proceedAns,
                   mainnetAns, airdropBack, cMintAuth, savedNetwork, calls, tokenResultVars,
                   clusterVars, instrVars>>

\* what the operation prints when its call returned
SuccessLine(f) ==
    CASE f = "createToken" -> "Token created successfully!"
      [] f = "transferTokens" -> "Transfer successful!"
      [] f = "burnTokens" -> "Tokens burned successfully!"
      [] f = "checkBalance" -> "Balance Information:"
      [] f = "mintMoreTokens" -> "Tokens minted successfully!"
      [] f = "disableTokenMinting" -> "Minting disabled successfully!"
      [] OTHER -> "Metadata set successfully!"

\* the TokenInstructions method an operation calls, with its possible runs
FlowMethod(f) ==
    CASE f = "createToken" -> "createToken"
      [] f = "transferTokens" -> "transfer"
      [] f = "burnTokens" -> "burn"
      [] f = "checkBalance" -> "getTokenBalance"
      [] f = "mintMoreTokens" -> "mintMoreTokens"
      [] f = "disableTokenMinting" -> "disableMinting"

FlowRuns(f) ==
    CASE f = "createToken" -> CreateTokenRuns(wallet, cMintAuth, mintAuthority, ata)
      [] f = "transferTokens" ->
           UNION {TransferRuns(cmint, wallet, rc, amount, mintAuthority, ata)
                    : rc \in Keys, amount \in Amounts}
      [] f = "burnTokens" -> BurnRuns(cmint, wallet, mintAuthority, ata)
      [] f = "checkBalance" -> GetTokenBalanceRuns(cmint, wallet, mintAuthority, ata)
      [] f = "mintMoreTokens" -> MintMoreTokensRuns(cmint, wallet, wallet, mintAuthority, ata)
      [] f = "disableTokenMinting" -> DisableMintingRuns(cmint, wallet, mintAuthority, ata)

\* new TokenInstructions(connection, wallet) and the call of its method, then the
\* lines printed, or the catch block
ExecInstruction ==
    /\ cpc = "exec" /\ flow \in (StandardFlows \cup ConfirmedFlows)
                                  \ {"setTokenMetadata", "updateMetadata"}
    /\ \E r \in FlowRuns(flow) :
         /\ Commit(FlowMethod(flow), IF flow = "createToken" /\ r.ok THEN r.val ELSE cmint,
                   wallet, conn, r)
         /\ Issue(IF flow = "checkBalance" /\ r.ok
                    THEN r.calls \o <<"getAccountInfo">> ELSE r.calls, conn)
         /\ IF r.ok
              THEN /\ out' = out \cup {SuccessLine(flow)}
                              \cup (IF flow = "createToken" /\ cMintAuth = "undefined"
                                      THEN {"Mint authority: None (minting disabled)"} ELSE {})
                   /\ cpc' = IF flow = "createToken" THEN "save" ELSE "enter"
              ELSE Caught
    /\ UNCHANGED <<flow, ops, menuChoice, rlClosed, mainnetCfg, envVars, network, conn, wallet, cmint, prompts,
                   answerVars, airdropBack, cMintAuth, savedNetwork, metadata, instrVars>>

\* metadataManager.setMetadata / updateMetadata (633, 729)
ExecMetadata ==
    /\ cpc = "exec" /\ flow \in {"setTokenMetadata", "updateMetadata"}
    /\ \E r \in SetMetadataRuns(cmint, wallet, mintAuthority, metadata) :
         /\ tMethod' = "setMetadata" /\ tMint' = cmint /\ tKey' = wallet
         /\ tRet' = [ok |-> r.ok, val |-> r.val]
         /\ tArgs' = NoArgs
         /\ metadata' = r.md
         /\ Issue(r.calls, conn)
         /\ IF r.ok
              THEN out' = out \cup {SuccessLine(flow)} /\ cpc' = "enter"
              ELSE Caught
    /\ UNCHANGED <<flow, ops, menuChoice, rlClosed, mainnetCfg, envVars, network, conn, wallet, cmint, prompts,
                   answerVars, airdropBack, cMintAuth, savedNetwork, mintAuthority, ata,
                   instrVars>>

\* createToken (282-299): the record is built, and written when the user says so
SaveTokenData ==
    /\ cpc = "save"
    /\ \/ /\ prompts' = prompts \o <<"saveData", "fileName">>
          /\ savedNetwork' = cfgNetwork
       \/ /\ prompts' = Append(prompts, "saveData")
          /\ savedNetwork' = savedNetwork
    /\ cpc' = "enter"
    /\ UNCHANGED <<flow, ops, menuChoice, rlClosed, mainnetCfg, envVars, network, conn, wallet, cmint, out, answerVars,
                   airdropBack, cMintAuth, calls, tokenResultVars, clusterVars, instrVars>>

\* pressEnterToContinue at the end of an operation, then back in main's loop
PressEnterToContinue ==
    /\ cpc = "enter"
    /\ prompts' = Append(prompts, "pressEnter")
    /\ cpc' = "menu"
    /\ UNCHANGED <<flow, ops, menuChoice, rlClosed, mainnetCfg, envVars, network, conn, wallet, cmint, out, answerVars,
                   airdropBack, cMintAuth, savedNetwork, calls, tokenResultVars, clusterVars,
                   instrVars>>

(* ----------------------- manageAuthorities (752-923) ------------------ *)
ManageChoices == {"1", "2", "3", "4", "5", "6", "7", "8", "9", ""}

\* the static method a choice ends in; 4, 5 and 8 start with isAccountFrozen
ManageStub(choice) ==
    CASE choice = "1" -> "static disableMinting"
      [] choice = "2" -> "static updateMintAuthority"
      [] choice = "3" -> "static updateFreezeAuthority"
      [] OTHER -> "static isAccountFrozen"

ManagePrompt(choice) ==
    CASE choice = "1" -> "confirmDisable"
      [] choice = "2" -> "newMintAuthority"
      [] choice = "3" -> "newFreezeAuthority"
      [] choice = "4" -> "accountToFreeze"
      [] choice = "5" -> "accountToThaw"
      [] OTHER -> "accountToCheck"

\* one prompt per account line and one for the empty line that ends the list
AccountPrompts(n) == [i \in 1..(n + 1) |-> "account"]

\* everything of manageAuthorities except the run of a batch
ManageAuthorities ==
    /\ cpc = "params" /\ flow = "manageAuthorities"
    /\ \E w \in Keys, m \in Mints, fileNetwork \in ConfigNetworks :
       LET c == GetConnection(fileNetwork)
           asked == prompts \o <<"walletPath", "mint">>
           stays == UNCHANGED <<pc, method, accounts, idx, results>>
           stub(name) == /\ tMethod' = name /\ tMint' = m /\ tKey' = w
                         /\ tRet' = [ok |-> FALSE, val |-> "Method not implemented."]
                         /\ tArgs' = NoArgs
           nostub == UNCHANGED tokenResultVars
       IN
       /\ wallet' = w /\ cmint' = m
       /\ \/ \* the wallet file or wallet-config.json is missing or invalid
             /\ prompts' = asked /\ calls' = calls /\ conn' = conn
             /\ Caught /\ nostub /\ stays
          \/ \* getMint throws
             /\ prompts' = asked /\ Issue(<<"getMint">>, c) /\ conn' = c
             /\ Caught /\ nostub /\ stays
          \/ /\ mintAuthority[m] # Absent
             /\ Issue(<<"getMint">>, c) /\ conn' = c
             /\ \E choice \in ManageChoices :
                  CASE choice = "1" ->
                         /\ prompts' = asked \o <<"manageChoice", ManagePrompt(choice)>>
                         /\ stays
                         /\ \E ans \in YesNoAnswers :
                              IF ToLowerCase(ans) # "y"
                                THEN /\ out' = out \cup {"Operation cancelled"}
                                     /\ cpc' = "enter" /\ nostub
                                ELSE Caught /\ stub(ManageStub(choice))
                    [] choice \in {"2", "3", "4", "5", "8"} ->
                         /\ prompts' = asked \o <<"manageChoice", ManagePrompt(choice)>>
                         /\ stays
                         /\ Caught
                         /\ \/ nostub                       \* new PublicKey(...) throws
                            \/ stub(ManageStub(choice))
                    [] choice \in {"6", "7"} ->
                         \E accts \in SeqsUpTo(Accounts, MaxBatch) :
                           /\ prompts' = asked \o <<"manageChoice">>
                                               \o AccountPrompts(Len(accts))
                           /\ nostub
                           /\ IF accts = <<>>
                                THEN /\ out' = out \cup {"No accounts provided"}
                                     /\ cpc' = "enter" /\ stays
                                ELSE \/ Caught /\ stays     \* new PublicKey(...) throws
                                     \/ /\ method' = IF choice = "6"
                                                       THEN "static batchFreezeAccounts"
                                                       ELSE "static batchThawAccounts"
                                        /\ pc' = "sbatch_loop"
                                        /\ accounts' = accts /\ idx' = 1
                                        /\ results' = EmptyResults
                                        /\ out' = out /\ cpc' = "batch"
                    [] choice = "9" ->
                         /\ prompts' = Append(asked, "manageChoice")
                         /\ out' = out /\ cpc' = "menu" /\ nostub /\ stays
                    [] OTHER ->
                         /\ prompts' = Append(asked, "manageChoice")
                         /\ out' = out \cup {"Invalid choice"}
                         /\ cpc' = "enter" /\ nostub /\ stays
    /\ UNCHANGED <<flow, ops, menuChoice, rlClosed, mainnetCfg, envVars, network, answerVars, airdropBack, cMintAuth,
                   savedNetwork, clusterVars>>
    /\ UNCHANGED <<retpc, txKind, txAccount, retryVars, ret, txlog, frozen>>

\* the static batch returned: its successes and failures are printed (865-873)
ManageBatchPrinted ==
    /\ cpc = "batch" /\ pc = "done"
    /\ out' = out \cup {"Batch results:"}
    /\ cpc' = "enter"
    /\ pc' = "idle" /\ method' = "none"
    /\ accounts' = <<>> /\ idx' = 1 /\ results' = EmptyResults
    /\ ret' = NoRes /\ txlog' = <<>>
    /\ UNCHANGED <<retpc, txKind, txAccount, retryVars, frozen>>
    /\ UNCHANGED <<flow, ops, menuChoice, rlClosed, mainnetCfg, envVars, network, conn, wallet, cmint, prompts,
                   answerVars, airdropBack, cMintAuth, savedNetwork, tokenVars>>

CliNext ==
    \/ MenuChoose
    \/ CallUpdateMetadata
    \/ ParamsRejected
    \/ StandardParams
    \/ ConfirmedParams
    \/ AirdropOffer
    \/ RequestDevnetAirdrop
    \/ AirdropPressEnter
    \/ EstimateCost
    \/ ConfirmMainnetOperation
    \/ ProceedPrompt
    \/ FinalPrompt
    \/ ExecInstruction
    \/ ExecMetadata
    \/ SaveTokenData
    \/ PressEnterToContinue
    \/ ManageAuthorities
    \/ StaticBatchItemOk
    \/ StaticBatchItemFails
    \/ BatchReturns
    \/ ManageBatchPrinted

\* the CLI started in any environment, against the cluster of TokenInit
CliStart ==
    /\ InstrIdle
    /\ frozen = [a \in Accounts |-> FALSE]
    /\ TokenInit
    /\ CliEnvInit

CliSpec == CliStart /\ [][CliNext]_vars

\* every question is answered and every awaited SDK call settles
CliLiveSpec == CliStart /\ [][CliNext]_vars /\ WF_vars(CliNext)


(* ===================== config.ts: the config object ==================== *)
(* Amounts of SOL are in thousandths (0.1 SOL = 100).                      *)
\* values the MAINNET_* variables may be set to
EnvMainnetValues == {Unset, EnvNumber(1), EnvNumber(3), EnvNumber(20),
                     EnvNumber(100), EnvNumber(500)}

\* config.ts:66-71  the mainnet member of the config literal
MainnetSettings ==
    [loaded |-> TRUE, confirmations |-> 20, minBalance |-> 100,
     warningThreshold |-> 500, maxRetries |-> 3]

\* the module is evaluated: dotenv.config(), then the config literal
LoadConfig ==
    /\ mainnetCfg = Unloaded
    /\ mainnetCfg' = MainnetSettings
    /\ UNCHANGED <<instrVars, tokenVars, cpc, flow, envVars, network, conn, wallet, cmint,
                   prompts, out, proceedAns, mainnetAns, finalAns, airdropBack, cMintAuth,
                   savedNetwork, ops, menuChoice, rlClosed>>

ConfigInit ==
    /\ InstrIdle
    /\ frozen = [a \in Accounts |-> FALSE]
    /\ TokenInit
    /\ CliLocals
    /\ cfgNetwork = "devnet"
    /\ envRpcUrl = "unset"
    /\ envMaxRetries = Unset
    /\ envMainnet \in [MainnetKeys -> EnvMainnetValues]

ConfigNext == LoadConfig

ConfigSpec == ConfigInit /\ [][ConfigNext]_vars

(* ====================== properties of the retry wrapper ================ *)
InRetry == pc \in {"retry_loop", "retry_wait"}

C1_Safe ==
    \* never more attempts, and never more submissions, than maxRetries
    /\ Len(outcomes) <= maxRetries
    /\ (method \in {"sendTransactionWithRetry", "freezeAccount", "thawAccount"}
          => Len(txlog) <= Len(outcomes))
    \* an attempt is made only after failures
    /\ \A i \in 1..(Len(outcomes) - 1) : outcomes[i] = "fail"
    \* the first success ends the call with that attempt's signature
    /\ (Len(outcomes) > 0 /\ outcomes[Len(outcomes)] = "ok"
          => /\ ~InRetry
             /\ sendRes.status = "ok"
             /\ sendRes.sig = Len(txlog)
             /\ txlog[sendRes.sig].ok
             /\ txlog[sendRes.sig].account = txAccount)
    \* it throws only after maxRetries failed attempts
    /\ (sendRes.status = "err"
          => Len(outcomes) = maxRetries /\ \A i \in 1..Len(outcomes) : outcomes[i] = "fail")
    /\ (pc = "done" /\ method = "sendTransactionWithRetry"
          => \/ ret.status = "returned" /\ ret.sig = Len(txlog) /\ txlog[ret.sig].ok
             \/ ret.status = "thrown" /\ \A k \in 1..Len(txlog) : ~txlog[k].ok)

\* C1: sendTransactionWithRetry submits at most maxRetries times, makes attempt
\* k+1 only after attempts 1..k failed, stops at the first success returning that
\* attempt's signature, and always terminates when every SDK call completes.
C1_BoundedRetry == [](C1_Safe) /\ (InRetry ~> (pc = "done"))

\* a call that failed twice and then succeeded on its third attempt
C1_Witness ==
    /\ pc = "done" /\ method = "sendTransactionWithRetry"
    /\ ret.status = "returned" /\ Len(outcomes) = 3 /\ maxRetries > 3

CountFailed == Cardinality({i \in 1..Len(outcomes) : outcomes[i] = "fail"})

\* C2: after failed attempt a (from 0) the wait is min(1000*2^a, 10000) ms, the
\* waits never decrease, and there is no wait after the final failed attempt.
C2_ExponentialBackoff ==
    /\ \A i \in 1..Len(waits) :
          waits[i] = (IF 1000 * 2^(i - 1) < 10000 THEN 1000 * 2^(i - 1) ELSE 10000)
    /\ \A i, j \in 1..Len(waits) : i <= j => waits[i] <= waits[j]
    /\ Len(waits) <= CountFailed
    /\ (pc = "retry_loop" /\ attempt < maxRetries => Len(waits) = CountFailed)
    /\ (pc = "retry_wait" => Len(waits) = CountFailed - 1 /\ attempt + 1 < maxRetries)
    /\ (sendRes.status = "err" /\ maxRetries >= 1 => Len(waits) = maxRetries - 1)
    /\ (sendRes.status = "err" /\ maxRetries = 0 => Len(waits) = 0)
    /\ (sendRes.status = "ok" => Len(waits) = CountFailed)

\* six attempts failed: five waits, the fifth at the cap, none after the last
C2_Witness ==
    /\ sendRes.status = "err" /\ maxRetries = 6
    /\ Len(waits) = 5 /\ waits[4] = 8000 /\ waits[5] = 10000

(* ====================== properties of the batch loops ================== *)
AllBatchMethods == BatchMethods \cup StaticBatchMethods

\* the transaction of input entry i was confirmed
Confirmed(i) == \E k \in 1..Len(txlog) : txlog[k].item = i /\ txlog[k].ok

\* the accounts of entries i..n whose confirmation status is `want`, in input order
RECURSIVE Pick(_, _, _)
Pick(i, n, want) ==
    IF i > n THEN <<>>
    ELSE (IF Confirmed(i) = want THEN <<accounts[i]>> ELSE <<>>) \o Pick(i + 1, n, want)

FailureAccounts == [k \in 1..Len(results.failures) |-> results.failures[k].account]

AtLoopHead == pc \in {"batch_loop", "sbatch_loop", "done"}

\* C3: a batch result places every input entry in exactly one of successes and
\* failures, an entry is in successes iff its transaction was confirmed, and both
\* lists keep the input order (instance and static versions).
C3_BatchPartition ==
    method \in AllBatchMethods /\ AtLoopHead =>
        /\ results.successes = Pick(1, idx - 1, TRUE)
        /\ FailureAccounts = Pick(1, idx - 1, FALSE)
        /\ Len(results.successes) + Len(results.failures) = idx - 1
        /\ (pc = "done" =>
              /\ idx - 1 = Len(accounts)
              /\ Len(results.successes) + Len(results.failures) = Len(accounts))

\* a finished instance batch with two confirmed entries, and a static one is
\* covered by the same formula
C3_Witness ==
    /\ pc = "done" /\ method \in BatchMethods
    /\ Len(accounts) = 2 /\ accounts[1] # accounts[2]
    /\ Len(results.successes) = 2

StatusMessages ==
    {"Failed to check account freeze status: e1",
     "Failed to check account freeze status: e2",
     "Failed to check account freeze status: Unknown error"}

C4_State ==
    method \in AllBatchMethods =>
        /\ ret.status # "thrown"
        /\ (pc = "done" => ret.status = "returned" /\ idx = Len(accounts) + 1)
        /\ (AtLoopHead => Len(results.failures) = Len(Pick(1, idx - 1, FALSE)))

\* a step that records a failure: the entry is the current account with the
\* error's message, and the loop goes on with the next account
C4_Step ==
    method \in AllBatchMethods /\ pc # "done" /\ results'.failures # results.failures =>
        /\ Len(results'.failures) = Len(results.failures) + 1
        /\ results'.successes = results.successes
        /\ results'.failures[Len(results'.failures)].account = accounts[idx]
        /\ idx' = idx + 1
        /\ pc' \in {"batch_loop", "sbatch_loop"}
        /\ LET msg == results'.failures[Len(results'.failures)].error IN
           /\ (pc = "batch_ret" =>
                 msg = (IF sendRes.err \in Errors THEN sendRes.err ELSE "Unknown error"))
           /\ (pc = "batch_loop" =>
                 msg \in StatusMessages \cup {"Account is already frozen", "Account is not frozen"})
           /\ (pc = "batch_loop" /\ msg \in {"Account is already frozen", "Account is not frozen"}
                 => frozen[accounts[idx]] = (method = "batchFreezeAccounts"))
           /\ (pc = "sbatch_loop" => msg \in Errors \cup {"Unknown error"})

\* C4: the batch operations never throw: a failing status check or transaction
\* is recorded in failures with its message and the later accounts are still
\* processed, one at a time in input order.
C4_BatchNeverThrows == [](C4_State) /\ [][C4_Step]_vars

\* the first account failed (status check or transaction) and the second one was
\* still processed and frozen
C4_Witness ==
    /\ pc = "done" /\ method = "batchFreezeAccounts"
    /\ Len(accounts) = 2
    /\ Len(results.failures) = 1 /\ results.failures[1].account = accounts[1]
    /\ results.failures[1].error \in StatusMessages \cup Errors
    /\ results.successes = <<accounts[2]>>

(* ================== properties of the CLI operations ================== *)
\* some call of the running operation is one of fns
Issued(fns) == \E i \in 1..Len(calls) : calls[i].fn \in fns

\* the SDK calls that submit a transaction
Transactions ==
    {"createMint", "mintTo", "transfer", "burn", "setAuthority", "tx:createMetadata",
     "tx:updateMetadata", "tx:createAssociatedTokenAccount"}

StateChanging ==
    {"createMint", "mintTo", "transfer", "burn", "tx:createMetadata", "tx:updateMetadata"}

ProceedFlows == {"createToken", "transferTokens", "burnTokens", "setTokenMetadata",
                 "updateMetadata", "mintMoreTokens"}

C5_State ==
    flow \in ProceedFlows /\ Issued(StateChanging) => proceedAns \in {"y", "Y"}

C5_Step ==
    cpc = "proceed" /\ proceedAns' \notin {"y", "Y"}
      => /\ "Operation cancelled" \in out'
         /\ calls' = calls
         /\ cpc' = "menu"

\* C5: in the Create, Transfer, Burn, Set Metadata, Update Metadata and Mint More
\* flows a createMint, mintTo, transfer, burn or metadata transaction has been issued
\* only if the proceed prompt was answered y or Y; any other answer, the empty one
\* included, prints 'Operation cancelled', issues no call and ends the operation.
C5_ProceedGate == [](C5_State) /\ [][C5_Step]_vars

\* an empty answer cancelled a transfer
C5_Witness ==
    /\ flow = "transferTokens" /\ cpc = "menu"
    /\ proceedAns = ""
    /\ "Operation cancelled" \in out
    /\ ~Issued(Transactions)

C6_State ==
    flow \in ConfirmedFlows /\ network = "mainnet-beta" /\ Issued({"mintTo", "setAuthority"})
      => mainnetAns = "MAINNET"

C6_Step ==
    cpc = "mainnet" =>
      IF network # "mainnet-beta"
        THEN /\ cpc' = AfterMainnet(flow)
             /\ prompts' = prompts
             /\ calls' = calls
             /\ mainnetAns' = "unasked"
        ELSE cpc' = AfterMainnet(flow) => mainnetAns' = "MAINNET"

\* C6: in Mint More Tokens and Disable Token Minting on mainnet-beta, mintTo or
\* setAuthority has been issued only if exactly MAINNET was typed at the mainnet
\* warning; on any other network confirmMainnetOperation lets the operation go on
\* without asking anything and without any RPC call.
C6_MainnetGate == [](C6_State) /\ [][C6_Step]_vars

\* tokens were minted on mainnet-beta after MAINNET was typed
C6_Witness ==
    /\ flow = "mintMoreTokens" /\ network = "mainnet-beta"
    /\ mainnetAns = "MAINNET"
    /\ "mainnetConfirm" \in {prompts[i] : i \in 1..Len(prompts)}
    /\ Issued({"mintTo"})
    /\ tRet.ok

C7_State ==
    flow = "disableTokenMinting" =>
      /\ Issued({"setAuthority"}) => finalAns = "DISABLE MINTING"
      /\ finalAns \notin {"unasked", "DISABLE MINTING"} => ~Issued(Transactions)

C7_Step ==
    cpc = "final" /\ finalAns' # "DISABLE MINTING"
      => /\ "Operation cancelled" \in out'
         /\ calls' = calls
         /\ cpc' = "menu"

\* C7: Disable Token Minting has issued setAuthority only if exactly DISABLE MINTING
\* was typed at the final prompt; any other input, a different case included,
\* cancels the operation and no transaction is submitted.
C7_FinalGate == [](C7_State) /\ [][C7_Step]_vars

\* the phrase in lower case cancelled the operation
C7_Witness ==
    /\ flow = "disableTokenMinting" /\ cpc = "menu"
    /\ finalAns = "disable minting"
    /\ "Operation cancelled" \in out
    /\ ~Issued(Transactions)

MintAuthorityMethods ==
    {"mintMoreTokens", "disableMinting", "updateMintAuthority",
     "static disableMinting", "static updateMintAuthority"}

C8_Step ==
    \A m \in Mints :
      mintAuthority[m] = Null =>
        /\ mintAuthority'[m] = Null
        /\ tMethod' \in MintAuthorityMethods /\ tMint' = m
             => /\ ~tRet'.ok
                /\ \A i \in 1..Len(calls') : calls'[i].fn \notin {"mintTo", "setAuthority"}

\* C8: once the mint authority of a mint is null it stays null, and every call of
\* mintMoreTokens, disableMinting or updateMintAuthority on that mint, with whatever
\* keypair, fails and issues neither mintTo nor setAuthority.
C8_DisabledForever == [][C8_Step]_vars

\* mintMoreTokens was refused on a mint whose minting is disabled
C8_Witness ==
    /\ tMethod = "mintMoreTokens"
    /\ mintAuthority[tMint] = Null
    /\ ~tRet.ok
    /\ tRet.val = "Failed to mint tokens: Provided keypair is not the mint authority"

C9_State ==
    /\ \A i \in 1..Len(calls) :
         calls[i].fn = "requestAirdrop" => calls[i].conn = ClusterApiUrl("devnet")
    /\ flow = "requestDevnetAirdrop" /\ (cpc \in {"airdrop", "airdrop_enter"}
                                          \/ Issued({"requestAirdrop"}))
         => cfgNetwork = "devnet"
    /\ flow # "requestDevnetAirdrop" /\ (cpc = "offer" \/ Issued({"requestAirdrop"})
           \/ "airdropOffer" \in {prompts[i] : i \in 1..Len(prompts)})
         => network = "devnet"

C9_Step ==
    cpc = "menu" /\ flow' = "requestDevnetAirdrop" /\ cfgNetwork # "devnet"
      => /\ cpc' = "enter"
         /\ "Airdrop is only available on devnet!" \in out'

\* C9: menu option 9 requests an airdrop only when the configured network is devnet,
\* an operation offers an airdrop only when the network selected for it is devnet,
\* and every requestAirdrop goes over the devnet endpoint.
C9_AirdropDevnetOnly == [](C9_State) /\ [][C9_Step]_vars

\* an operation on devnet requested an airdrop although mainnet-beta is configured
C9_Witness ==
    /\ cfgNetwork = "mainnet-beta"
    /\ flow = "createToken" /\ network = "devnet"
    /\ Issued({"requestAirdrop"})

\* C10: Check Token Balance is read-only: whenever getTokenBalance ran, the operation
\* has submitted no transaction, so no account was created.
C10_ReadOnly ==
    tMethod = "getTokenBalance" => ~Issued(Transactions)


(* ===================== properties of the menu loop ==================== *)
\* the operation the printed menu lists for an option (1090-1100)
Listed(c) ==
    CASE c = "1" -> "createToken"             \* 1. Create New Token
      [] c = "2" -> "transferTokens"          \* 2. Transfer Tokens
      [] c = "3" -> "burnTokens"              \* 3. Burn Tokens
      [] c = "4" -> "checkBalance"            \* 4. Check Token Balance
      [] c = "5" -> "setTokenMetadata"        \* 5. Set Token Metadata
      [] c = "6" -> "manageAuthorities"       \* 6. Manage Token Authorities
      [] c = "7" -> "mintMoreTokens"          \* 7. Mint More Tokens
      [] c = "8" -> "disableTokenMinting"     \* 8. Disable Token Minting
      [] c = "9" -> "requestDevnetAirdrop"    \* 9. Request Devnet Airdrop
      [] c = "10" -> "showHelp"               \* 10. Help

Options == {"1", "2", "3", "4", "5", "6", "7", "8", "9", "10"}

\* where each operation starts: its first question, or for Help its closing prompt
EntryOf(op) ==
    CASE op = "requestDevnetAirdrop" -> "airdrop"
      [] op = "showHelp" -> "enter"
      [] OTHER -> "params"

InOperation == cpc \notin {"menu", "exited"}

PromptSet == {prompts[i] : i \in 1..Len(prompts)}

C11_Dispatch ==
    cpc = "menu" /\ prompts' = <<"menu">> =>
      /\ menuChoice' \in Options =>
           /\ flow' = Listed(menuChoice')
           /\ rlClosed' = rlClosed
           /\ IF menuChoice' = "9" /\ cfgNetwork # "devnet"
                THEN cpc' = "enter" /\ "Airdrop is only available on devnet!" \in out'
                ELSE cpc' = EntryOf(Listed(menuChoice'))
      /\ menuChoice' \notin Options \cup {"11"} =>
           /\ "Invalid option" \in out'
           /\ flow' = "invalid" /\ cpc' = "enter"
           /\ rlClosed' = rlClosed
      /\ menuChoice' = "11" <=> cpc' = "exited"
      /\ menuChoice' = "11" => rlClosed' = rlClosed + 1

C11_During ==
    /\ InOperation => flow' = flow /\ rlClosed' = rlClosed /\ menuChoice' = menuChoice
    /\ cpc = "exited" => cpc' = "exited" /\ prompts' = prompts /\ rlClosed' = rlClosed
    /\ cpc' = "exited" => cpc \in {"menu", "exited"}

C11_State ==
    /\ rlClosed = (IF cpc = "exited" THEN 1 ELSE 0)
    /\ cpc = "exited" => prompts = <<"menu">> /\ menuChoice = "11"
    /\ flow = "invalid" => calls = <<>> /\ PromptSet \subseteq {"menu", "pressEnter"}

FreezeThawMethods == {"freezeAccount", "thawAccount"}

C12_EnvConfiguresRetries ==
    (method \in FreezeThawMethods /\ envMaxRetries.set)
        => Len(txlog) <= envMaxRetries.val

(* C13: the mainnet safety thresholds (minimum balance, warning threshold,  *)
(* confirmations, maximum retries) take the values of the MAINNET_*         *)
(* environment variables that are set.                                      *)
C13_MainnetFromEnv ==
    mainnetCfg.loaded =>
        \A k \in MainnetKeys : envMainnet[k].set => mainnetCfg[k] = envMainnet[k].val

(* C14: Create New Token run with no mint authority typed reports          *)
(* 'Mint authority: None (minting disabled)', and the token it created has  *)
(* no mint authority.                                                       *)
CreatedToken ==
    /\ flow = "createToken" /\ tMethod = "createToken" /\ tRet.ok
    /\ "Token created successfully!" \in out

C14_NoMintAuthority ==
    (CreatedToken /\ cMintAuth = "undefined")
        => /\ "Mint authority: None (minting disabled)" \in out
           /\ mintAuthority[tMint] = Null

(* C15: a successful Create New Token has done every step it announces: the *)
(* mint exists with its authority set, its metadata account was             *)
(* initialized, and the initial supply was minted.                          *)
C15_AllStepsDone ==
    CreatedToken
        => /\ mintAuthority[tMint] # Absent
           /\ Issued({"createMint"}) /\ Issued({"mintTo"})
           /\ tMint \in metadata

(* C16: Manage Token Authorities, 'Freeze token account' / 'Thaw token      *)
(* account' with a valid account address: the operation either reports     *)
(* that the account is already in that state, or reports success with the   *)
(* transaction it submitted.                                                *)
FreezeThawChosen ==
    /\ flow = "manageAuthorities" /\ cpc \in {"enter", "menu"}
    /\ tMethod = "static isAccountFrozen"
    /\ PromptSet \cap {"accountToFreeze", "accountToThaw"} # {}

C16_ManageFreezeThaw ==
    FreezeThawChosen
        => IF "accountToFreeze" \in PromptSet
             THEN \/ "Account is already frozen" \in out
                  \/ "Account frozen successfully" \in out
             ELSE \/ "Account is not frozen" \in out
                  \/ "Account thawed successfully" \in out

(* C17: a call of setMetadata, createMetadata or updateMetadata submits at  *)
(* most one transaction; it is the create-metadata instruction when the     *)
(* mint's metadata account does not exist when the method is called and the *)
(* update-metadata instruction when it exists; a call that returns has      *)
(* submitted exactly one, as its last step, and returns its signature.      *)
MetadataTxs(cs) == SelectSeq(cs, LAMBDA c : c.fn \in {"tx:createMetadata", "tx:updateMetadata"})

C17_Step ==
    tMethod' \in MetadataMethods =>
        LET txs == MetadataTxs(calls') IN
        /\ Len(txs) <= 1
        /\ Len(txs) = 1 =>
              /\ txs[1].fn = IF tMint' \in metadata THEN "tx:updateMetadata"
                                                    ELSE "tx:createMetadata"
              /\ calls'[Len(calls')] = txs[1]
              /\ calls'[1].fn = "getAccountInfo"
        /\ tRet'.ok => Len(txs) = 1 /\ tRet'.val = "signature"
        /\ metadata' = IF tRet'.ok THEN metadata \cup {tMint'} ELSE metadata

C17_OneMetadataTransaction == [][C17_Step]_vars

C17_Witness ==
    /\ tMethod = "updateMetadata" /\ tRet.ok
    /\ Issued({"tx:updateMetadata"}) /\ ~Issued({"tx:createMetadata"})
    /\ tMint \in metadata

(* C18: transfer resolves the payer's account, then the recipient's         *)
(* (creating it when it does not exist), then reads the mint, then submits  *)
(* one transfer of amount * 10^decimals raw units and returns its           *)
(* signature; the transfer is never submitted before the recipient's        *)
(* account exists.                                                          *)
Fns(cs) == [i \in 1..Len(cs) |-> cs[i].fn]

IsPrefix(p, q) == Len(p) <= Len(q) /\ \A i \in 1..Len(p) : p[i] = q[i]

\* what getOrCreateAssociatedTokenAccount does for owner when accounts atas exist
ResolveAccount(owner, m, atas) ==
    IF <<owner, m>> \in atas
      THEN <<"getOrCreateAssociatedTokenAccount">>
      ELSE <<"getOrCreateAssociatedTokenAccount", "tx:createAssociatedTokenAccount">>

TransferOrder(m, payer, recipient, atas) ==
    ResolveAccount(payer, m, atas)
      \o ResolveAccount(recipient, m, atas \cup {<<payer, m>>})
      \o <<"getMint", "transfer">>

C18_Step ==
    tMethod' = "transfer" =>
        LET fns == Fns(calls')
            rc == tArgs'.recipient
            order == TransferOrder(tMint', tKey', rc, ata)
        IN
        /\ IsPrefix(fns, order)
        /\ (\E i \in 1..Len(fns) : fns[i] = "transfer") => <<rc, tMint'>> \in ata'
        /\ tRet'.ok =>
              /\ fns = order
              /\ tRet'.val = "signature"
              /\ tArgs'.raw = tArgs'.amount * Pow10(MintDecimals[tMint'])
              /\ ata' = ata \cup {<<tKey', tMint'>>, <<rc, tMint'>>}

C18_TransferOrder == [][C18_Step]_vars

C18_Witness ==
    /\ tMethod = "transfer" /\ tRet.ok
    /\ tArgs.recipient # tKey /\ tArgs.raw = 500
    /\ Fns(calls) = <<"getOrCreateAssociatedTokenAccount",
                      "getOrCreateAssociatedTokenAccount", "tx:createAssociatedTokenAccount",
                      "getMint", "transfer">>

(* C19: when every attempt of a sendTransactionWithRetry call with          *)
(* maxRetries >= 1 has failed, the call makes no further attempt and throws *)
(* the error of its last attempt; it throws only then, after exactly        *)
(* maxRetries attempts.                                                     *)
AllFailed ==
    /\ Len(outcomes) = maxRetries
    /\ \A i \in 1..Len(outcomes) : outcomes[i] = "fail"

C19_Step ==
    /\ (pc = "retry_loop" /\ maxRetries >= 1 /\ AllFailed)
          => /\ sendRes' = [status |-> "err", sig |-> 0, err |-> raised.last]
             /\ outcomes' = outcomes /\ txlog' = txlog
             /\ pc' = retpc
    /\ (InRetry /\ maxRetries >= 1 /\ sendRes.status # "err" /\ sendRes'.status = "err")
          => AllFailed /\ sendRes'.err = raised.last

C19_State ==
    (method = "sendTransactionWithRetry" /\ ret.status = "thrown" /\ maxRetries >= 1)
        => ret.err = raised.last /\ AllFailed

C19_ThrowsLastError == [](C19_State) /\ [][C19_Step]_vars

C19_Witness ==
    /\ pc = "done" /\ method = "sendTransactionWithRetry" /\ ret.status = "thrown"
    /\ maxRetries = 3 /\ Len(outcomes) = 3
    /\ raised.first # raised.last
    /\ ret.err = raised.last

(* C20: the token record saved by Create New Token has its network field    *)
(* equal to the network selected for that creation.                         *)
C20_SavedNetwork ==
    (flow = "createToken" /\ savedNetwork # "none") => savedNetwork = network
====
